---------------------------- MODULE Spec2Model ----------------------------
(***************************************************************************)
(* A model of memory-tool (PromiseAll/memory-tool): the MemoryTool engine  *)
(* of src/src/lib.rs and the raw accessors of src/src/internal/memory.rs,  *)
(* running against a target process whose memory is a small array of       *)
(* bytes split into pages, each page with a protection.                    *)
(*                                                                         *)
(* Machine integers are little-endian sequences of bytes (0..255) of the   *)
(* width the code gives them, so a cast is a truncation or an extension    *)
(* and an addition carries and wraps exactly as the machine does.  The     *)
(* model is of the 64-bit build (usize is 8 bytes) with overflow checks    *)
(* off (the release profile), where usize addition wraps.                  *)
(***************************************************************************)
EXTENDS Integers, Sequences, FiniteSets, TLC

---------------------------------------------------------------------------
(* Bounds of the model.                                                    *)

\* bytes per page of the target (the real page is larger; the code never
\* reads the page size)
PageSize == 8
\* pages of the target's address space that the model gives the target
NumPages == 2
\* operations one behaviour of the life-cycle specification performs
MaxOps == 2
\* engines one behaviour constructs
MaxEngines == 2
\* handles the operating system issues in one behaviour
MaxHandles == 3

MemSize == NumPages * PageSize

---------------------------------------------------------------------------
(* Machine integers as little-endian byte sequences.                       *)

Byte == 0..255

Min(a, b) == IF a < b THEN a ELSE b
Max(a, b) == IF a > b THEN a ELSE b

Zeros(n) == [i \in 1..n |-> 0]

\* the n-byte integer whose lowest byte is b
Small(b, n) == [i \in 1..n |-> IF i = 1 THEN b ELSE 0]

IsZero(bs) == \A i \in 1..Len(bs) : bs[i] = 0

\* the sign bit of a two's complement integer
IsNeg(bs) == Len(bs) > 0 /\ bs[Len(bs)] >= 128

\* Rust's `x as T` between integer types: truncation to a narrower type,
\* sign extension from a signed source, zero extension from an unsigned one
CastInt(bs, srcSigned, n) ==
    [i \in 1..n |-> IF i <= Len(bs) THEN bs[i]
                    ELSE IF srcSigned /\ IsNeg(bs) THEN 255 ELSE 0]

RECURSIVE AddCarry(_, _, _, _)
AddCarry(a, b, i, c) ==
    IF i > Len(a) THEN <<>>
    ELSE LET s == a[i] + b[i] + c
         IN  <<s % 256>> \o AddCarry(a, b, i + 1, s \div 256)

\* wrapping addition of two integers of the same width
WrappingAdd(a, b) == AddCarry(a, b, 1, 0)

\* two's complement negation
WrappingNeg(bs) ==
    WrappingAdd([i \in 1..Len(bs) |-> 255 - bs[i]], Small(1, Len(bs)))

\* i64::unsigned_abs
UnsignedAbs(bs) == IF IsNeg(bs) THEN WrappingNeg(bs) ELSE bs

---------------------------------------------------------------------------
(* The target process as the operating system presents it: ReadProcessMemory, *)
(* WriteProcessMemory and VirtualProtectEx on bytes mem and page protections  *)
(* prot.  An address is a usize (8 bytes); the target's pages are the first   *)
(* NumPages pages of the address space and every other address is unmapped.   *)

VARIABLES
    mem,        \* the target's bytes: [0..MemSize-1 -> Byte]
    prot,       \* the protection of each page: [0..NumPages-1 -> Protections]
    lastError,  \* the calling thread's last-error code (GetLastError)
    engines,    \* the MemoryTool values: state, handle, pid, arch
    handles,    \* every handle the operating system issued
    last,       \* the operation performed last: inputs, OS calls, result
    nops,       \* operations performed so far
    writers     \* the threads inside write_memory_raw, by thread

vars == <<mem, prot, lastError, engines, handles, last, nops, writers>>

\* bytes of a usize on the modelled build
UsizeBytes == 8

Protections == {"FREE", "NOACCESS", "R", "RW", "RX", "RWX"}

\* PAGE_EXECUTE_READWRITE
PAGE_EXECUTE_READWRITE == "RWX"

Readable == {"R", "RW", "RX", "RWX"}
Writable == {"RW", "RWX"}
Committed(pr) == pr # "FREE"

\* last-error codes, as GetLastError reports them
ERROR_SUCCESS == "ERROR_SUCCESS"
ERROR_ACCESS_DENIED == "ERROR_ACCESS_DENIED"
ERROR_INVALID_HANDLE == "ERROR_INVALID_HANDLE"
ERROR_INVALID_PARAMETER == "ERROR_INVALID_PARAMETER"
ERROR_PARTIAL_COPY == "ERROR_PARTIAL_COPY"
ERROR_INVALID_ADDRESS == "ERROR_INVALID_ADDRESS"

\* the index of the byte an address names; every address past the target's
\* pages is unmapped, and all of them are given the index MemSize
AddrIndex(a) ==
    IF /\ \A i \in 3..Len(a) : a[i] = 0
       /\ a[1] + 256 * a[2] < MemSize
    THEN a[1] + 256 * a[2]
    ELSE MemSize

\* the protection of the page holding byte i of the range starting at base
ProtAt(p, base, i) ==
    IF base + i < MemSize THEN p[(base + i) \div PageSize]
    ELSE "FREE"

\* how many leading bytes of [base, base+n) lie in pages whose protection
\* is one of Ok
AccLen(p, base, n, Ok) ==
    CHOOSE k \in 0..n :
        /\ \A i \in 0..(k - 1) : ProtAt(p, base, i) \in Ok
        /\ k = n \/ ProtAt(p, base, k) \notin Ok

\* What the environment does to one OS call: nothing ("none"), make it fail
\* ("fail"), or let it report success having moved fewer bytes ("short");
\* k bounds the bytes a failed or short transfer moves.
NoFault == [kind |-> "none", k |-> 0]

\* the outcome of a transfer of n bytes of which the first acc are accessible
Transfer(hOpen, acc, n, f) ==
    LET ok == hOpen /\ acc = n /\ f.kind # "fail"
    IN  [ok |-> ok,
         moved |-> IF ok /\ (f.kind = "none" \/ n = 0) THEN n
                   ELSE IF ~hOpen THEN 0
                   ELSE Max(0, Min(Min(f.k, acc), n - 1)),
         code |-> IF ok THEN ERROR_SUCCESS
                  ELSE IF ~hOpen THEN ERROR_INVALID_HANDLE
                  ELSE IF acc < n THEN ERROR_PARTIAL_COPY
                  ELSE ERROR_ACCESS_DENIED]

\* what a read whose transfer went as t leaves in the zero-initialised buffer
ReadOutcome(m, base, n, t) ==
    [ok |-> t.ok, moved |-> t.moved, code |-> t.code,
     data |-> [i \in 1..n |-> IF i <= t.moved THEN m[base + i - 1] ELSE 0]]

\* ReadProcessMemory into a zero-initialised buffer of n bytes
OsRead(m, p, hOpen, a, n, f) ==
    ReadOutcome(m, AddrIndex(a), n,
                Transfer(hOpen, AccLen(p, AddrIndex(a), n, Readable), n, f))

\* what a write whose transfer went as t leaves in the target
WriteOutcome(m, base, data, t) ==
    [ok |-> t.ok, moved |-> t.moved, code |-> t.code,
     mem |-> [x \in DOMAIN m |->
                IF x >= base /\ x < base + t.moved
                THEN data[x - base + 1] ELSE m[x]]]

\* WriteProcessMemory of the bytes data
OsWrite(m, p, hOpen, a, data, f) ==
    WriteOutcome(m, AddrIndex(a), data,
                 Transfer(hOpen, AccLen(p, AddrIndex(a), Len(data), Writable),
                          Len(data), f))

\* the pages that hold a byte of [base, base+n), n > 0
PagesOf(base, n) == (base \div PageSize)..((base + n - 1) \div PageSize)

\* whether the protection of [base, base+n) can be changed: the range is
\* not empty and every page of it is committed
Protectable(p, base, n) ==
    /\ n > 0
    /\ base + n <= MemSize
    /\ \A g \in PagesOf(base, n) : Committed(p[g])

\* VirtualProtectEx: every page holding a byte of the range gets the new
\* protection, and the old protection of the first of them is returned; it
\* fails, changing nothing, on an empty range or a range with an uncommitted
\* page
ProtectOutcome(p, base, n, new, ok, hOpen) ==
    [ok |-> ok, moved |-> 0,
     code |-> IF ok THEN ERROR_SUCCESS
              ELSE IF ~hOpen THEN ERROR_INVALID_HANDLE
              ELSE IF n = 0 THEN ERROR_INVALID_PARAMETER
              ELSE IF Protectable(p, base, n) THEN ERROR_ACCESS_DENIED
              ELSE ERROR_INVALID_ADDRESS,
     old |-> IF ok THEN p[base \div PageSize] ELSE "NONE",
     prot |-> IF ok THEN [g \in DOMAIN p |->
                            IF g \in PagesOf(base, n) THEN new ELSE p[g]]
              ELSE p]

OsProtect(p, hOpen, a, n, new, f) ==
    ProtectOutcome(p, AddrIndex(a), n, new,
                   hOpen /\ f.kind # "fail" /\ Protectable(p, AddrIndex(a), n),
                   hOpen)

\* the last-error code after a call: a failing call sets it, a succeeding
\* call leaves it as it was
ErrAfter(before, r) == IF r.ok THEN before ELSE r.code

\* one entry of an operation's log of OS calls
Call(fn, h, a, n, r) ==
    [fn |-> fn, h |-> h, at |-> a, len |-> n, ok |-> r.ok, moved |-> r.moved]

---------------------------------------------------------------------------
(* src/src/internal/memory.rs: the raw typed accessors.  Each takes the    *)
(* target (m, p), the thread's last-error code le, the handle h and        *)
(* whether it is open, and gives the result with the OS calls it made and  *)
(* the target and last-error code it leaves.  An accessor that makes       *)
(* several OS calls is one definition per call: the definition receives    *)
(* the outcomes of the calls made so far.                                  *)

\* get_last_error_string: the text of the last-error code
get_last_error_string(le) == le

Out(ok, err, val, calls, m, p, le) ==
    [ok |-> ok, err |-> err, val |-> val, calls |-> calls,
     mem |-> m, prot |-> p, lastError |-> le]

\* the error text of a raw accessor
RawErr(msg, le) == [msg |-> msg, code |-> get_last_error_string(le)]
NoRawErr == [msg |-> "", code |-> ""]

\* read_memory_raw, once ReadProcessMemory returned r
read_memory_raw_check(m, p, le, h, a, n, r) ==
    IF r.ok /\ r.moved = n
    THEN Out(TRUE, NoRawErr, r.data, <<Call("Read", h, a, n, r)>>, m, p,
             ErrAfter(le, r))
    ELSE Out(FALSE, RawErr("Win32Error", ErrAfter(le, r)), <<>>,
             <<Call("Read", h, a, n, r)>>, m, p, ErrAfter(le, r))

\* read_memory_raw::<T>, T of n bytes
read_memory_raw(m, p, le, h, hOpen, a, n, f) ==
    read_memory_raw_check(m, p, le, h, a, n, OsRead(m, p, hOpen, a, n, f))

\* write_memory_raw_result with the outcome of the restoration taken into
\* the result: Ok only when the retry and the restoration both succeeded
write_memory_raw_result_strict(m, le, calls, retry_ok, rs) ==
    IF retry_ok /\ rs.ok
    THEN Out(TRUE, NoRawErr, <<>>, calls, m, rs.prot, ErrAfter(le, rs))
    ELSE Out(FALSE, RawErr("ForcedWriteFailed", ErrAfter(le, rs)), <<>>, calls,
             m, rs.prot, ErrAfter(le, rs))

\* write_memory_raw, step 4 done: rs is the outcome of restoring the
\* protection; retry_ok is the outcome of the retried write
write_memory_raw_result(m, le, calls, retry_ok, rs) ==
    IF retry_ok
    THEN Out(TRUE, NoRawErr, <<>>, calls, m, rs.prot, ErrAfter(le, rs))
    ELSE Out(FALSE, RawErr("ForcedWriteFailed", ErrAfter(le, rs)), <<>>, calls,
             m, rs.prot, ErrAfter(le, rs))

\* write_memory_raw, step 4: w2 is the outcome of the retried write, old
\* the captured protection, which is restored whatever w2 is
write_memory_raw_restore(p, le, h, hOpen, a, n, f, calls, old, w2) ==
    write_memory_raw_result(
        w2.mem, ErrAfter(le, w2),
        calls \o <<Call("Write", h, a, n, w2),
                   Call("Protect", h, a, n, OsProtect(p, hOpen, a, n, old, f))>>,
        w2.ok, OsProtect(p, hOpen, a, n, old, f))

\* write_memory_raw_retry without the return on a failed protection
\* change: the write is retried and the captured protection restored
\* whatever pr is
write_memory_raw_retry_anyway(m, p, le, h, hOpen, a, value, fs, calls, pr) ==
    write_memory_raw_restore(
        pr.prot, ErrAfter(le, pr), h, hOpen, a, Len(value), fs[4],
        calls \o <<Call("Protect", h, a, Len(value), pr)>>, pr.old,
        OsWrite(m, pr.prot, hOpen, a, value, fs[3]))

\* write_memory_raw, step 3: pr is the outcome of the protection change
write_memory_raw_retry(m, p, le, h, hOpen, a, value, fs, calls, pr) ==
    IF ~pr.ok
    THEN Out(FALSE, RawErr("VirtualProtectExFailed", ErrAfter(le, pr)), <<>>,
             calls \o <<Call("Protect", h, a, Len(value), pr)>>, m, p,
             ErrAfter(le, pr))
    ELSE write_memory_raw_restore(
             pr.prot, ErrAfter(le, pr), h, hOpen, a, Len(value), fs[4],
             calls \o <<Call("Protect", h, a, Len(value), pr)>>, pr.old,
             OsWrite(m, pr.prot, hOpen, a, value, fs[3]))

\* write_memory_raw, step 2: w1 is the outcome of the direct write
write_memory_raw_protect(p, le, h, hOpen, a, value, fs, w1) ==
    IF w1.ok
    THEN Out(TRUE, NoRawErr, <<>>, <<Call("Write", h, a, Len(value), w1)>>,
             w1.mem, p, ErrAfter(le, w1))
    ELSE write_memory_raw_retry(
             w1.mem, p, ErrAfter(le, w1), h, hOpen, a, value, fs,
             <<Call("Write", h, a, Len(value), w1)>>,
             OsProtect(p, hOpen, a, Len(value), PAGE_EXECUTE_READWRITE, fs[2]))

\* write_memory_raw::<T>, the value given as its bytes; fs are the faults of
\* the four OS calls it can make.  Step 1 is the direct write.
write_memory_raw(m, p, le, h, hOpen, a, value, fs) ==
    write_memory_raw_protect(p, le, h, hOpen, a, value, fs,
                             OsWrite(m, p, hOpen, a, value, fs[1]))

---------------------------------------------------------------------------
(* napi's BigInt: a sign bit and 64-bit words of the magnitude, lowest     *)
(* word first.                                                             *)

BigIntOf(sign_bit, words) == [sign_bit |-> sign_bit, words |-> words]

\* BigInt::get_u64: (signed, the first word, lossless)
get_u64(val) ==
    <<val.sign_bit, val.words[1], ~val.sign_bit /\ Len(val.words) = 1>>

\* BigInt::from(u64)
BigIntFromU64(v) == BigIntOf(FALSE, <<v>>)

\* BigInt::from(i64)
BigIntFromI64(v) == BigIntOf(IsNeg(v), <<UnsignedAbs(v)>>)

---------------------------------------------------------------------------
(* src/src/lib.rs: MemoryTool.  An operation takes self: the engine's      *)
(* handle, whether that handle is open, and the engine's arch.             *)

\* napi::Error: a status and a reason; the reason is a message, the
\* last-error text it embeds, and for a pointer chain the level
Err(status, msg, code, depth) ==
    [status |-> status, msg |-> msg, code |-> code, depth |-> depth]
NoErr == Err("Ok", "", "", 0)

\* Error::new(Status::GenericFailure, e) of a raw accessor's error text
WrapRaw(e) == Err("GenericFailure", e.msg, e.code, 0)

\* bigint_to_addr_of without the lossless test: the first word is the
\* address whatever words follow it
bigint_to_addr_truncating(g) ==
    IF g[1] THEN [ok |-> FALSE, err |-> Err("InvalidArg", "AddrNegative", "", 0),
                  addr |-> <<>>]
    ELSE [ok |-> TRUE, err |-> NoErr, addr |-> CastInt(g[2], FALSE, UsizeBytes)]

\* bigint_to_addr of the tuple get_u64 gives
bigint_to_addr_of(g) ==
    IF g[1] THEN [ok |-> FALSE, err |-> Err("InvalidArg", "AddrNegative", "", 0),
                  addr |-> <<>>]
    ELSE IF ~g[3]
    THEN [ok |-> FALSE, err |-> Err("InvalidArg", "AddrPrecisionLoss", "", 0),
          addr |-> <<>>]
    ELSE [ok |-> TRUE, err |-> NoErr, addr |-> CastInt(g[2], FALSE, UsizeBytes)]

\* bigint_to_addr
bigint_to_addr(val) == bigint_to_addr_of(get_u64(val))

\* the scalar types of impl_number_rw and impl_bigint_rw (the two floating
\* point pairs, read_float and read_double, are left out)
NumberTypes == {"u8", "i8", "u16", "i16", "u32", "i32"}
BigIntTypes == {"u64", "i64"}
ScalarTypes == NumberTypes \cup BigIntTypes

\* size_of::<T>()
SizeOf(T) == CASE T \in {"u8", "i8"} -> 1
               [] T \in {"u16", "i16"} -> 2
               [] T \in {"u32", "i32"} -> 4
               [] T \in {"u64", "i64"} -> 8

IsSigned(T) == T \in {"i8", "i16", "i32", "i64"}

\* the JavaScript-side type of a number accessor: u32 or i32, 4 bytes
JsBytes == 4

\* An operation that fails before any OS call
Rejected(err, m, p, le) == Out(FALSE, err, <<>>, <<>>, m, p, le)

\* the result of a typed write: the raw accessor's, its error wrapped
WriteResult(r) ==
    Out(r.ok, IF r.ok THEN NoErr ELSE WrapRaw(r.err), <<>>, r.calls,
        r.mem, r.prot, r.lastError)

\* impl_number_rw, $read_name: val as $js_type of what the raw read gave
number_read_result(T, r) ==
    IF ~r.ok
    THEN Out(FALSE, WrapRaw(r.err), <<>>, r.calls, r.mem, r.prot, r.lastError)
    ELSE Out(TRUE, NoErr, CastInt(r.val, IsSigned(T), JsBytes), r.calls,
             r.mem, r.prot, r.lastError)

\* impl_number_rw, $read_name, once bigint_to_addr returned v
number_read_at(m, p, le, self, T, f, v) ==
    IF ~v.ok THEN Rejected(v.err, m, p, le)
    ELSE number_read_result(
             T, read_memory_raw(m, p, le, self.handle, self.open, v.addr,
                                SizeOf(T), f))

\* impl_number_rw, $read_name for the Rust type T
impl_number_rw_read(m, p, le, self, T, addr, f) ==
    number_read_at(m, p, le, self, T, f, bigint_to_addr(addr))

\* impl_number_rw, $write_name, once bigint_to_addr returned v: value is
\* the JavaScript-side u32 or i32, cast to T
number_write_at(m, p, le, self, T, value, fs, v) ==
    IF ~v.ok THEN Rejected(v.err, m, p, le)
    ELSE WriteResult(
             write_memory_raw(m, p, le, self.handle, self.open, v.addr,
                              CastInt(value, IsSigned(T), SizeOf(T)), fs))

\* impl_number_rw, $write_name
impl_number_rw_write(m, p, le, self, T, addr, value, fs) ==
    number_write_at(m, p, le, self, T, value, fs, bigint_to_addr(addr))

\* impl_bigint_rw, $read_name: BigInt::from of what the raw read gave
bigint_read_result(T, r) ==
    IF ~r.ok
    THEN Out(FALSE, WrapRaw(r.err), <<>>, r.calls, r.mem, r.prot, r.lastError)
    ELSE Out(TRUE, NoErr,
             IF IsSigned(T) THEN BigIntFromI64(r.val) ELSE BigIntFromU64(r.val),
             r.calls, r.mem, r.prot, r.lastError)

\* impl_bigint_rw, $read_name, once bigint_to_addr returned v
bigint_read_at(m, p, le, self, T, f, v) ==
    IF ~v.ok THEN Rejected(v.err, m, p, le)
    ELSE bigint_read_result(
             T, read_memory_raw(m, p, le, self.handle, self.open, v.addr,
                                SizeOf(T), f))

\* impl_bigint_rw, $read_name for u64 or i64
impl_bigint_rw_read(m, p, le, self, T, addr, f) ==
    bigint_read_at(m, p, le, self, T, f, bigint_to_addr(addr))

\* impl_bigint_rw, $write_name, once bigint_to_addr returned v: the first
\* word of the BigInt, cast to T
bigint_write_at(m, p, le, self, T, value, fs, v) ==
    IF ~v.ok THEN Rejected(v.err, m, p, le)
    ELSE WriteResult(
             write_memory_raw(m, p, le, self.handle, self.open, v.addr,
                              CastInt(get_u64(value)[2], FALSE, SizeOf(T)), fs))

\* impl_bigint_rw, $write_name
impl_bigint_rw_write(m, p, le, self, T, addr, value, fs) ==
    bigint_write_at(m, p, le, self, T, value, fs, bigint_to_addr(addr))

\* PointerBytes with the arch ignored: every pointer read as 8 bytes
PointerBytesWide(arch) == 8

\* bytes of the pointer an engine of this arch dereferences
PointerBytes(arch) == IF arch = "X86" THEN 4 ELSE 8

\* u32 offset as usize
OffsetAsUsize(offset) == CastInt(offset, FALSE, UsizeBytes)

RECURSIVE ChainLoop(_, _, _, _, _, _, _, _, _)

\* ChainNext with the errors carrying the index i of enumerate(), from 0,
\* in place of i + 1
ChainNextZeroBased(m, p, self, offsets, fs, i, calls, r) ==
    IF ~r.ok
    THEN Out(FALSE, Err("GenericFailure", "LevelReadFailed", r.err.code, i - 1),
             <<>>, calls \o r.calls, m, p, r.lastError)
    ELSE IF IsZero(CastInt(r.val, FALSE, UsizeBytes))
    THEN Out(FALSE, Err("GenericFailure", "NullPointer", "", i - 1),
             <<>>, calls \o r.calls, m, p, r.lastError)
    ELSE ChainLoop(m, p, r.lastError, self, offsets, fs, i + 1,
                   CastInt(r.val, FALSE, UsizeBytes), calls \o r.calls)

\* resolve_pointer_chain, the match on the result r of the i-th read
ChainNext(m, p, self, offsets, fs, i, calls, r) ==
    IF ~r.ok
    THEN Out(FALSE, Err("GenericFailure", "LevelReadFailed", r.err.code, i),
             <<>>, calls \o r.calls, m, p, r.lastError)
    ELSE IF IsZero(CastInt(r.val, FALSE, UsizeBytes))
    THEN Out(FALSE, Err("GenericFailure", "NullPointer", "", i),
             <<>>, calls \o r.calls, m, p, r.lastError)
    ELSE ChainLoop(m, p, r.lastError, self, offsets, fs, i + 1,
                   CastInt(r.val, FALSE, UsizeBytes), calls \o r.calls)

\* ChainLoop without take(offsets.len() - 1): every offset, the last
\* included, is dereferenced
ChainLoopAll(m, p, le, self, offsets, fs, i, current, calls) ==
    IF i > Len(offsets)
    THEN Out(TRUE, NoErr, BigIntFromU64(current), calls, m, p, le)
    ELSE ChainNext(m, p, self, offsets, fs, i, calls,
                   read_memory_raw(m, p, le, self.handle, self.open,
                                   WrappingAdd(current, OffsetAsUsize(offsets[i])),
                                   PointerBytes(self.arch), fs[i]))

\* resolve_pointer_chain, the loop over all offsets but the last, from the
\* i-th on, and the addition of the last; fs[i] is the fault of the i-th read
ChainLoop(m, p, le, self, offsets, fs, i, current, calls) ==
    IF i > Len(offsets) - 1
    THEN Out(TRUE, NoErr,
             BigIntFromU64(WrappingAdd(current, OffsetAsUsize(offsets[Len(offsets)]))),
             calls, m, p, le)
    ELSE ChainNext(m, p, self, offsets, fs, i, calls,
                   read_memory_raw(m, p, le, self.handle, self.open,
                                   WrappingAdd(current, OffsetAsUsize(offsets[i])),
                                   PointerBytes(self.arch), fs[i]))

\* resolve_pointer_chain, once bigint_to_addr returned v
resolve_from(m, p, le, self, offsets, fs, v) ==
    IF ~v.ok THEN Rejected(v.err, m, p, le)
    ELSE IF offsets = <<>>
    THEN Out(TRUE, NoErr, BigIntFromU64(v.addr), <<>>, m, p, le)
    ELSE ChainLoop(m, p, le, self, offsets, fs, 1, v.addr, <<>>)

\* resolve_pointer_chain
resolve_pointer_chain(m, p, le, self, base_addr, offsets, fs) ==
    resolve_from(m, p, le, self, offsets, fs, bigint_to_addr(base_addr))

\* read_buffer, once ReadProcessMemory returned r
read_buffer_check(m, p, le, h, a, length, r) ==
    IF r.ok /\ r.moved = length
    THEN Out(TRUE, NoErr, r.data, <<Call("Read", h, a, length, r)>>, m, p,
             ErrAfter(le, r))
    ELSE Out(FALSE,
             Err("GenericFailure", "ReadBufferFailed",
                 get_last_error_string(ErrAfter(le, r)), 0),
             <<>>, <<Call("Read", h, a, length, r)>>, m, p, ErrAfter(le, r))

\* read_buffer, once bigint_to_addr returned v
read_buffer_at(m, p, le, self, length, f, v) ==
    IF ~v.ok THEN Rejected(v.err, m, p, le)
    ELSE read_buffer_check(m, p, le, self.handle, v.addr, length,
                           OsRead(m, p, self.open, v.addr, length, f))

\* read_buffer
read_buffer(m, p, le, self, addr, length, f) ==
    read_buffer_at(m, p, le, self, length, f, bigint_to_addr(addr))

\* write_buffer, after the protection was restored with outcome rs
write_buffer_result(m, le, calls, retry_ok, rs) ==
    IF retry_ok
    THEN Out(TRUE, NoErr, <<>>, calls, m, rs.prot, ErrAfter(le, rs))
    ELSE Out(FALSE,
             Err("GenericFailure", "WriteBufferFailed",
                 get_last_error_string(ErrAfter(le, rs)), 0),
             <<>>, calls, m, rs.prot, ErrAfter(le, rs))

\* write_buffer, restoring the protection old after the retry returned w2
write_buffer_restore(p, le, h, hOpen, a, n, f, calls, old, w2) ==
    write_buffer_result(
        w2.mem, ErrAfter(le, w2),
        calls \o <<Call("Write", h, a, n, w2),
                   Call("Protect", h, a, n, OsProtect(p, hOpen, a, n, old, f))>>,
        w2.ok, OsProtect(p, hOpen, a, n, old, f))

\* write_buffer, the retry after the protection change returned pr
write_buffer_retry(m, p, le, h, hOpen, a, data, fs, calls, pr) ==
    IF ~pr.ok
    THEN Out(FALSE,
             Err("GenericFailure", "ProtectFailed",
                 get_last_error_string(ErrAfter(le, pr)), 0),
             <<>>, calls \o <<Call("Protect", h, a, Len(data), pr)>>, m, p,
             ErrAfter(le, pr))
    ELSE write_buffer_restore(
             pr.prot, ErrAfter(le, pr), h, hOpen, a, Len(data), fs[4],
             calls \o <<Call("Protect", h, a, Len(data), pr)>>, pr.old,
             OsWrite(m, pr.prot, hOpen, a, data, fs[3]))

\* write_buffer_protect without the early return: the protection is
\* changed and the write retried whatever the direct write returned
write_buffer_protect_always(p, le, h, hOpen, a, data, fs, w1) ==
    write_buffer_retry(
        w1.mem, p, ErrAfter(le, w1), h, hOpen, a, data, fs,
        <<Call("Write", h, a, Len(data), w1)>>,
        OsProtect(p, hOpen, a, Len(data), PAGE_EXECUTE_READWRITE, fs[2]))

\* write_buffer, after the direct write returned w1
write_buffer_protect(p, le, h, hOpen, a, data, fs, w1) ==
    IF w1.ok
    THEN Out(TRUE, NoErr, <<>>, <<Call("Write", h, a, Len(data), w1)>>,
             w1.mem, p, ErrAfter(le, w1))
    ELSE write_buffer_retry(
             w1.mem, p, ErrAfter(le, w1), h, hOpen, a, data, fs,
             <<Call("Write", h, a, Len(data), w1)>>,
             OsProtect(p, hOpen, a, Len(data), PAGE_EXECUTE_READWRITE, fs[2]))

\* write_buffer, once bigint_to_addr returned v
write_buffer_at(m, p, le, self, data, fs, v) ==
    IF ~v.ok THEN Rejected(v.err, m, p, le)
    ELSE write_buffer_protect(p, le, self.handle, self.open, v.addr, data, fs,
                              OsWrite(m, p, self.open, v.addr, data, fs[1]))

\* write_buffer
write_buffer(m, p, le, self, addr, buffer, fs) ==
    write_buffer_at(m, p, le, self, buffer, fs, bigint_to_addr(addr))

\* Option<u32>
None == [some |-> FALSE, v |-> 0]
Some(x) == [some |-> TRUE, v |-> x]
unwrap_or(o, d) == IF o.some THEN o.v ELSE d

\* a continuation byte between lo and hi at position i of bs
Cont(bs, i, lo, hi) == i <= Len(bs) /\ bs[i] >= lo /\ bs[i] <= hi

\* String::from_utf8 accepts bs from position i on: well-formed UTF-8, with
\* no overlong form, no surrogate and nothing past U+10FFFF
RECURSIVE Utf8From(_, _)
Utf8From(bs, i) ==
    IF i > Len(bs) THEN TRUE
    ELSE IF bs[i] <= 127 THEN Utf8From(bs, i + 1)
    ELSE IF bs[i] >= 194 /\ bs[i] <= 223
    THEN Cont(bs, i + 1, 128, 191) /\ Utf8From(bs, i + 2)
    ELSE IF bs[i] >= 224 /\ bs[i] <= 239
    THEN /\ Cont(bs, i + 1, IF bs[i] = 224 THEN 160 ELSE 128,
                            IF bs[i] = 237 THEN 159 ELSE 191)
         /\ Cont(bs, i + 2, 128, 191)
         /\ Utf8From(bs, i + 3)
    ELSE IF bs[i] >= 240 /\ bs[i] <= 244
    THEN /\ Cont(bs, i + 1, IF bs[i] = 240 THEN 144 ELSE 128,
                            IF bs[i] = 244 THEN 143 ELSE 191)
         /\ Cont(bs, i + 2, 128, 191)
         /\ Cont(bs, i + 3, 128, 191)
         /\ Utf8From(bs, i + 4)
    ELSE FALSE

\* String::from_utf8: a String is its UTF-8 bytes
from_utf8(bs) == [ok |-> Utf8From(bs, 1), s |-> bs]

\* ZeroPosition with no search for the terminator: the whole buffer
ZeroPositionIgnored(bytes) == Len(bytes)

\* bytes.iter().position(|&b| b == 0).unwrap_or(bytes.len()), as a count of
\* the bytes before it
ZeroPosition(bytes) ==
    IF \E i \in 1..Len(bytes) : bytes[i] = 0
    THEN (CHOOSE i \in 1..Len(bytes) :
            bytes[i] = 0 /\ \A j \in 1..(i - 1) : bytes[j] # 0) - 1
    ELSE Len(bytes)

\* read_string, the decoding str of the bytes before the terminator
read_string_decode(buffer, str) ==
    IF str.ok
    THEN Out(TRUE, NoErr, str.s, buffer.calls, buffer.mem, buffer.prot,
             buffer.lastError)
    ELSE Out(FALSE, Err("GenericFailure", "Utf8DecodeError", "", 0), <<>>,
             buffer.calls, buffer.mem, buffer.prot, buffer.lastError)

\* read_string, once read_buffer returned buffer
read_string_of(buffer) ==
    IF ~buffer.ok THEN buffer
    ELSE read_string_decode(
             buffer, from_utf8(SubSeq(buffer.val, 1, ZeroPosition(buffer.val))))

\* read_string
read_string(m, p, le, self, addr, max_length, f) ==
    read_string_of(read_buffer(m, p, le, self, addr, unwrap_or(max_length, 256), f))

\* text is a sequence of characters
HexChars == <<"0", "1", "2", "3", "4", "5", "6", "7", "8", "9",
              "A", "B", "C", "D", "E", "F">>
LowerHexChars == <<"0", "1", "2", "3", "4", "5", "6", "7", "8", "9",
                   "a", "b", "c", "d", "e", "f">>

\* char::is_ascii_hexdigit
is_ascii_hexdigit(c) ==
    \E i \in 1..16 : HexChars[i] = c \/ LowerHexChars[i] = c

\* the value of a hexadecimal digit
DigitValue(c) ==
    (CHOOSE i \in 1..16 : HexChars[i] = c \/ LowerHexChars[i] = c) - 1

\* format!("{:02X}", b)
UpperHex02(b) == <<HexChars[(b \div 16) + 1], HexChars[(b % 16) + 1]>>

\* hex.join(" ") of the formatted bytes from the i-th on
RECURSIVE JoinHex(_, _)
JoinHex(bytes, i) ==
    IF i > Len(bytes) THEN <<>>
    ELSE IF i = Len(bytes) THEN UpperHex02(bytes[i])
    ELSE UpperHex02(bytes[i]) \o <<" ">> \o JoinHex(bytes, i + 1)

\* read_instruction, once read_buffer returned buffer
read_instruction_of(buffer) ==
    IF ~buffer.ok THEN buffer
    ELSE Out(TRUE, NoErr, JoinHex(buffer.val, 1), buffer.calls, buffer.mem,
             buffer.prot, buffer.lastError)

\* read_instruction
read_instruction(m, p, le, self, addr, length, f) ==
    read_instruction_of(read_buffer(m, p, le, self, addr, unwrap_or(length, 16), f))

\* FilterHex removing the whitespace only: every other character is kept
\* for the parse
RECURSIVE StripWhitespace(_)
StripWhitespace(cs) ==
    IF cs = <<>> THEN <<>>
    ELSE (IF Head(cs) \in {" ", "\t", "\n"} THEN <<>> ELSE <<Head(cs)>>)
         \o StripWhitespace(Tail(cs))

\* hex_bytes.chars().filter(|c| c.is_ascii_hexdigit()).collect()
RECURSIVE FilterHex(_)
FilterHex(cs) ==
    IF cs = <<>> THEN <<>>
    ELSE (IF is_ascii_hexdigit(Head(cs)) THEN <<Head(cs)>> ELSE <<>>)
         \o FilterHex(Tail(cs))

\* u8::from_str_radix of two characters, radix 16
from_str_radix(c1, c2) ==
    IF is_ascii_hexdigit(c1) /\ is_ascii_hexdigit(c2)
    THEN [ok |-> TRUE, v |-> 16 * DigitValue(c1) + DigitValue(c2)]
    ELSE [ok |-> FALSE, v |-> 0]

\* the bytes write_instruction decodes from the cleaned text: ok is FALSE
\* when a pair does not parse
DecodePairs(cleaned) ==
    [ok |-> \A i \in 1..(Len(cleaned) \div 2) :
                from_str_radix(cleaned[2 * i - 1], cleaned[2 * i]).ok,
     bytes |-> [i \in 1..(Len(cleaned) \div 2) |->
                  from_str_radix(cleaned[2 * i - 1], cleaned[2 * i]).v]]

\* write_instruction, the decoded bytes written
write_instruction_bytes(m, p, le, self, addr, fs, bytes) ==
    IF ~bytes.ok
    THEN Rejected(Err("InvalidArg", "HexParseFailed", "", 0), m, p, le)
    ELSE write_buffer(m, p, le, self, addr, bytes.bytes, fs)

\* write_instruction, the cleaned text checked and decoded
write_instruction_cleaned(m, p, le, self, addr, fs, cleaned) ==
    IF Len(cleaned) % 2 # 0
    THEN Rejected(Err("InvalidArg", "InvalidHexString", "", 0), m, p, le)
    ELSE write_instruction_bytes(m, p, le, self, addr, fs, DecodePairs(cleaned))

\* write_instruction
write_instruction(m, p, le, self, addr, hex_bytes, fs) ==
    write_instruction_cleaned(m, p, le, self, addr, fs, FilterHex(hex_bytes))

\* nop_instruction
nop_instruction(m, p, le, self, addr, length, fs) ==
    write_buffer(m, p, le, self, addr, [i \in 1..length |-> 144], fs)

---------------------------------------------------------------------------
(* Construction and discarding of an engine.  handles is the sequence of   *)
(* handles the operating system issued, each with its owner (an engine's   *)
(* index, or 0 for the handle of the architecture query), whether it is    *)
(* open, and how often CloseHandle was called on it.                       *)

NoneStr == [some |-> FALSE, v |-> ""]
NoneBool == [some |-> FALSE, v |-> FALSE]

\* the processes the target machine runs: pid and name
Running == {[pid |-> 100, name |-> "target.exe"]}
Pids == {100, 200}
Names == {"target.exe", "absent.exe"}

\* find_process_id
find_process_id(name) ==
    IF \E r \in Running : r.name = name
    THEN Some((CHOOSE r \in Running : r.name = name).pid)
    ELSE None

\* OpenProcess: a new handle, unless the process is not there or the
\* environment denies the access
OsOpen(hs, owner, pid, denied) ==
    LET ok == (\E r \in Running : r.pid = pid) /\ ~denied
    IN  [ok |-> ok,
         handle |-> IF ok THEN Len(hs) + 1 ELSE 0,
         handles |-> IF ok
                     THEN Append(hs, [owner |-> owner, open |-> TRUE, closes |-> 0])
                     ELSE hs]

\* CloseHandle
OsClose(hs, h) ==
    [hs EXCEPT ![h] = [@ EXCEPT !.open = FALSE, !.closes = @ + 1]]

\* HANDLE::is_invalid
is_invalid(h) == h = 0

\* is_process_x64 on the 64-bit build: opens a query handle, asks
\* IsWow64Process and closes the handle; det is what the query finds
\* ("x64", "x86", or "unknown" when IsWow64Process fails)
is_process_x64(hs, pid, det, denied) ==
    LET o == OsOpen(hs, 0, pid, denied)
    IN  IF ~o.ok THEN [res |-> NoneBool, handles |-> hs]
        ELSE [res |-> IF det = "unknown" THEN NoneBool
                      ELSE [some |-> TRUE, v |-> (det = "x64")],
              handles |-> OsClose(o.handles, o.handle)]

\* new_internal: enable_debug_privilege's failure is only logged
new_internal(hs, owner, pid, arch, denied) ==
    LET o == OsOpen(hs, owner, pid, denied)
    IN  IF ~o.ok
        THEN [ok |-> FALSE, err |-> Err("GenericFailure", "OpenProcessFailed", "", 0),
              handles |-> hs, tool |-> <<>>]
        ELSE [ok |-> TRUE, err |-> NoErr, handles |-> o.handles,
              tool |-> [st |-> "live", handle |-> o.handle, pid |-> pid, arch |-> arch]]

\* create: options are process_name, pid and arch_x64; owner is the index
\* the new engine gets
create(hs, owner, options, det, deniedQuery, denied) ==
    LET found == find_process_id(options.process_name.v)
        pid   == IF options.process_name.some THEN found.v ELSE options.pid.v
        q     == is_process_x64(hs, pid, det, deniedQuery)
        arch  == IF options.arch_x64.some
                 THEN (IF options.arch_x64.v THEN "X64" ELSE "X86")
                 ELSE IF q.res.some /\ ~q.res.v THEN "X86" ELSE "X64"
        hs1   == IF options.arch_x64.some THEN hs ELSE q.handles
    IN  IF options.process_name.some /\ ~found.some
        THEN [ok |-> FALSE, err |-> Err("GenericFailure", "ProcessNotFound", "", 0),
              handles |-> hs, tool |-> <<>>]
        ELSE IF ~options.process_name.some /\ ~options.pid.some
        THEN [ok |-> FALSE, err |-> Err("InvalidArg", "MissingNameOrPid", "", 0),
              handles |-> hs, tool |-> <<>>]
        ELSE new_internal(hs1, owner, pid, arch, denied)

\* Drop for MemoryTool without its CloseHandle
drop_leaking(hs, tool) == hs

\* Drop for MemoryTool
drop(hs, tool) ==
    IF ~is_invalid(tool.handle) THEN OsClose(hs, tool.handle) ELSE hs

---------------------------------------------------------------------------
(* The state machine.                                                      *)

\* the record of an operation: what was asked, of which engine, the target
\* before it, and what it returned
Rec(op, e, addr, ty, arg, out) ==
    [op |-> op, eng |-> e, addr |-> addr, ty |-> ty, arg |-> arg,
     ok |-> out.ok, err |-> out.err, val |-> out.val, calls |-> out.calls,
     mem0 |-> mem, prot0 |-> prot]

NoOp == [op |-> "none", eng |-> 0, addr |-> BigIntOf(FALSE, <<Zeros(8)>>),
         ty |-> "", arg |-> <<>>, ok |-> TRUE, err |-> NoErr, val |-> <<>>,
         calls |-> <<>>, mem0 |-> <<>>, prot0 |-> <<>>]

\* the engine an operation runs on: it exists and was not discarded
Live(e) == e \in 1..Len(engines) /\ engines[e].st = "live"

\* what an operation of engine e sees of it
Self(e) == [handle |-> engines[e].handle,
            open   |-> handles[engines[e].handle].open,
            arch   |-> engines[e].arch]

\* an operation of a live engine took place and left the target as out says
Apply(D, op, e, addr, ty, arg, out) ==
    /\ nops < D.ops
    /\ mem' = out.mem
    /\ prot' = out.prot
    /\ lastError' = out.lastError
    /\ last' = Rec(op, e, addr, ty, arg, out)
    /\ nops' = nops + 1
    /\ UNCHANGED <<engines, handles, writers>>

---------------------------------------------------------------------------
(* The inputs the model draws.                                             *)

Fail(k) == [kind |-> "fail", k |-> k]
Short(k) == [kind |-> "short", k |-> k]

\* the faults of a transfer and of a protection change
TransferFaults == {NoFault, Fail(0), Fail(1), Short(1)}
ProtectFaults == {NoFault, Fail(0)}

\* the faults of the four OS calls of a write
WriteFaults == {<<f1, f2, f3, f4>> :
                  f1 \in TransferFaults, f2 \in ProtectFaults,
                  f3 \in TransferFaults, f4 \in ProtectFaults}
NoWriteFaults == <<NoFault, NoFault, NoFault, NoFault>>

\* n-byte integers at the edges of the type: 1, all ones, the largest
\* positive and the smallest negative two's complement value
EdgePatterns(n) ==
    { Small(1, n),
      [i \in 1..n |-> 255],
      [i \in 1..n |-> IF i = n THEN 127 ELSE 255],
      [i \in 1..n |-> IF i = n THEN 128 ELSE 0] }

\* the JavaScript-side values that are representable in the scalar type T:
\* a u32 or i32 for the number types, a BigInt for u64 and i64
ValuesOf(T) ==
    IF T \in NumberTypes
    THEN {CastInt(b, IsSigned(T), JsBytes) : b \in EdgePatterns(SizeOf(T))}
    ELSE IF T = "u64" THEN {BigIntFromU64(b) : b \in EdgePatterns(8)}
    ELSE {BigIntFromI64(b) : b \in EdgePatterns(8)}

\* addresses as the caller passes them
AddrOf(n) == BigIntOf(FALSE, <<Small(n, 8)>>)
NegativeAddr == BigIntOf(TRUE, <<Small(1, 8)>>)
TwoWordAddr == BigIntOf(FALSE, <<Zeros(8), Small(1, 8)>>)
InvalidAddrs == {NegativeAddr, TwoWordAddr}

\* the start of the target, and the last byte of its first page, from where
\* a value of two bytes or more reaches into the second page
StartAddr == AddrOf(0)
StraddleAddr == AddrOf(PageSize - 1)

---------------------------------------------------------------------------
(* The actions: one per operation of the binding surface.  D is the        *)
(* record of the sets the action draws its inputs from.                    *)

Create(D) ==
    /\ Len(engines) < MaxEngines
    /\ Len(handles) + 2 <= MaxHandles
    /\ \E options \in D.options, det \in D.dets, dq \in D.denied, dn \in D.denied :
         LET c == create(handles, Len(engines) + 1, options, det, dq, dn)
         IN  /\ handles' = c.handles
             /\ engines' = IF c.ok THEN Append(engines, c.tool) ELSE engines
             /\ last' = Rec("create", IF c.ok THEN Len(engines) + 1 ELSE 0,
                            NoOp.addr, "", options,
                            [ok |-> c.ok, err |-> c.err, val |-> <<>>, calls |-> <<>>])
    /\ UNCHANGED <<mem, prot, lastError, nops, writers>>

\* the engine is discarded: the host drops the value, once
Discard ==
    \E e \in 1..Len(engines) :
        /\ Live(e)
        /\ handles' = drop(handles, engines[e])
        /\ engines' = [engines EXCEPT ![e].st = "dropped"]
        /\ last' = Rec("drop", e, NoOp.addr, "", <<>>,
                       [ok |-> TRUE, err |-> NoErr, val |-> <<>>, calls |-> <<>>])
        /\ UNCHANGED <<mem, prot, lastError, nops, writers>>

ReadScalar(D) ==
    \E e \in 1..Len(engines), T \in D.types, a \in D.addrs, f \in D.faults :
        /\ Live(e)
        /\ IF T \in NumberTypes
           THEN Apply(D, "read_scalar", e, a, T, <<>>,
                      impl_number_rw_read(mem, prot, lastError, Self(e), T, a, f))
           ELSE Apply(D, "read_scalar", e, a, T, <<>>,
                      impl_bigint_rw_read(mem, prot, lastError, Self(e), T, a, f))

WriteScalar(D) ==
    \E e \in 1..Len(engines), T \in D.types, a \in D.addrs, fs \in D.wfaults :
        \E value \in D.values[T] :
            /\ Live(e)
            /\ IF T \in NumberTypes
               THEN Apply(D, "write_scalar", e, a, T, value,
                          impl_number_rw_write(mem, prot, lastError, Self(e), T, a,
                                               value, fs))
               ELSE Apply(D, "write_scalar", e, a, T, value,
                          impl_bigint_rw_write(mem, prot, lastError, Self(e), T, a,
                                               value, fs))

ReadBuffer(D) ==
    \E e \in 1..Len(engines), a \in D.addrs, n \in D.lens, f \in D.faults :
        /\ Live(e)
        /\ Apply(D, "read_buffer", e, a, "", n,
                 read_buffer(mem, prot, lastError, Self(e), a, n, f))

WriteBuffer(D) ==
    \E e \in 1..Len(engines), a \in D.addrs, b \in D.buffers, fs \in D.wfaults :
        /\ Live(e)
        /\ Apply(D, "write_buffer", e, a, "", b,
                 write_buffer(mem, prot, lastError, Self(e), a, b, fs))

ReadString(D) ==
    \E e \in 1..Len(engines), a \in D.addrs, n \in D.bounds, f \in D.faults :
        /\ Live(e)
        /\ Apply(D, "read_string", e, a, "", n,
                 read_string(mem, prot, lastError, Self(e), a, n, f))

ReadInstruction(D) ==
    \E e \in 1..Len(engines), a \in D.addrs, n \in D.bounds, f \in D.faults :
        /\ Live(e)
        /\ Apply(D, "read_instruction", e, a, "", n,
                 read_instruction(mem, prot, lastError, Self(e), a, n, f))

WriteInstruction(D) ==
    \E e \in 1..Len(engines), a \in D.addrs, t \in D.texts, fs \in D.wfaults :
        /\ Live(e)
        /\ Apply(D, "write_instruction", e, a, "", t,
                 write_instruction(mem, prot, lastError, Self(e), a, t, fs))

NopInstruction(D) ==
    \E e \in 1..Len(engines), a \in D.addrs, n \in D.lens, fs \in D.wfaults :
        /\ Live(e)
        /\ Apply(D, "nop_instruction", e, a, "", n,
                 nop_instruction(mem, prot, lastError, Self(e), a, n, fs))

ResolvePointerChain(D) ==
    \E e \in 1..Len(engines), a \in D.addrs, offs \in D.chains, fs \in D.cfaults :
        /\ Live(e)
        /\ Apply(D, "resolve_pointer_chain", e, a, "", offs,
                 resolve_pointer_chain(mem, prot, lastError, Self(e), a, offs, fs))

---------------------------------------------------------------------------
(* Initial states.                                                         *)

\* the target's bytes: byte x holds bs[x+1], and 0 past the end of bs
MemOf(bs) == [x \in 0..(MemSize - 1) |-> IF x < Len(bs) THEN bs[x + 1] ELSE 0]

\* the protections of the target's pages as a function of the page
AllPages(pr) == [g \in 0..(NumPages - 1) |-> pr]

\* before any engine is constructed
InitWith(Mems, Prots) ==
    /\ mem \in Mems
    /\ prot \in Prots
    /\ lastError = ERROR_SUCCESS
    /\ engines = <<>>
    /\ handles = <<>>
    /\ last = NoOp
    /\ nops = 0
    /\ writers = <<>>

\* after one engine was constructed for the target, with either arch
InitEngine(Mems, Prots, Archs) ==
    /\ mem \in Mems
    /\ prot \in Prots
    /\ lastError = ERROR_SUCCESS
    /\ \E arch \in Archs :
         engines = <<[st |-> "live", handle |-> 1, pid |-> 100, arch |-> arch]>>
    /\ handles = <<[owner |-> 1, open |-> TRUE, closes |-> 0]>>
    /\ last = NoOp
    /\ nops = 0
    /\ writers = <<>>

---------------------------------------------------------------------------
(* Spec: engines are constructed, used and discarded.                      *)

Opts(name, pid, arch_x64) == [process_name |-> name, pid |-> pid, arch_x64 |-> arch_x64]

LifeOptions ==
    { Opts(Some("target.exe"), None, NoneBool),
      Opts(Some("absent.exe"), Some(100), NoneBool),
      Opts(NoneStr, Some(100), [some |-> TRUE, v |-> FALSE]),
      Opts(NoneStr, Some(200), [some |-> TRUE, v |-> TRUE]),
      Opts(NoneStr, None, NoneBool) }

U32(n) == Small(n, 4)

LifeInputs ==
    [ops |-> MaxOps,
     options |-> LifeOptions, dets |-> {"x86", "unknown"}, denied |-> BOOLEAN,
     types |-> {"u16"},
     values |-> [T \in ScalarTypes |-> {CastInt(Small(1, SizeOf(T)), FALSE, JsBytes)}],
     addrs |-> {StartAddr},
     faults |-> {NoFault},
     wfaults |-> {NoWriteFaults},
     lens |-> {2},
     buffers |-> {<<7, 8>>},
     bounds |-> {Some(2)},
     texts |-> {<<"9", "0">>},
     chains |-> {<<U32(0), U32(2)>>},
     cfaults |-> {<<NoFault, NoFault>>}]

LifeMem == MemOf(<<4, 0, 0, 0, 65, 66>>)

Init == InitWith({LifeMem}, {AllPages("RW")})

Next ==
    \/ Create(LifeInputs)
    \/ Discard
    \/ ReadScalar(LifeInputs)
    \/ WriteScalar(LifeInputs)
    \/ ReadBuffer(LifeInputs)
    \/ WriteBuffer(LifeInputs)
    \/ ReadString(LifeInputs)
    \/ ReadInstruction(LifeInputs)
    \/ WriteInstruction(LifeInputs)
    \/ NopInstruction(LifeInputs)
    \/ ResolvePointerChain(LifeInputs)

Spec == Init /\ [][Next]_vars

---------------------------------------------------------------------------
(* SpecRW: one engine reads or writes the target once, the target's pages  *)
(* having any protections and the environment doing anything to each OS    *)
(* call.                                                                   *)

\* the protections the pages can start with
StartProtections == [0..(NumPages - 1) -> {"RW", "R", "RX", "FREE"}]

RWMem == MemOf([i \in 1..MemSize |-> 16 + i])

RWInputs ==
    [ops |-> 1,
     types |-> ScalarTypes,
     values |-> [T \in ScalarTypes |->
                   IF T \in NumberTypes
                   THEN {CastInt(Small(1, SizeOf(T)), FALSE, JsBytes)}
                   ELSE {BigIntFromU64(Small(1, 8))}],
     addrs |-> {StartAddr, StraddleAddr},
     faults |-> TransferFaults,
     wfaults |-> WriteFaults,
     lens |-> {0, 2},
     buffers |-> {<<>>, <<7, 8>>},
     texts |-> {<<"9", "0", " ", "9", "0">>}]

InitRW == InitEngine({RWMem}, StartProtections, {"X64"})

NextRW ==
    \/ ReadScalar(RWInputs)
    \/ WriteScalar(RWInputs)
    \/ ReadBuffer(RWInputs)
    \/ WriteBuffer(RWInputs)
    \/ WriteInstruction(RWInputs)
    \/ NopInstruction(RWInputs)

SpecRW == InitRW /\ [][NextRW]_vars

\* the operations that write
WriteOps == {"write_scalar", "write_buffer", "write_instruction", "nop_instruction"}

\* the last operation took the forced-write path: its direct write failed
\* and its protection change succeeded
ForcedWrite ==
    /\ last.op \in WriteOps
    /\ Len(last.calls) = 4
    /\ ~last.calls[1].ok
    /\ last.calls[2].ok

\* the protection of byte i of the range the last operation wrote to, in
\* the protections p
RangeProt(p, i) == ProtAt(p, AddrIndex(last.calls[1].at), i)

\* C1: when a write operation has taken the forced-write path and the
\* restoring protection call succeeded, every byte of [address,
\* address+length) has the protection it had when the operation started,
\* whether the retried write succeeded or not.
C1_ProtectionRestored ==
    (ForcedWrite /\ last.calls[4].ok) =>
        \A i \in 0..(last.calls[1].len - 1) :
            RangeProt(prot, i) = RangeProt(last.prot0, i)

\* C2: a read or write whose OS transfer call reported success having moved
\* fewer bytes than requested returns an error.
C2_ShortTransferIsError ==
    (\E i \in 1..Len(last.calls) :
        /\ last.calls[i].fn \in {"Read", "Write"}
        /\ last.calls[i].ok
        /\ last.calls[i].moved < last.calls[i].len)
    => ~last.ok

---------------------------------------------------------------------------
(* SpecRT: one engine writes a scalar to writable memory and reads it      *)
(* back, the environment doing nothing to the OS calls.                    *)

RTInputs ==
    [ops |-> 2,
     types |-> ScalarTypes,
     values |-> [T \in ScalarTypes |-> ValuesOf(T)],
     addrs |-> {StartAddr, StraddleAddr},
     faults |-> {NoFault},
     wfaults |-> {NoWriteFaults}]

InitRT == InitEngine({RWMem}, {AllPages("RW")}, {"X64"})

NextRT ==
    \/ ReadScalar(RTInputs)
    \/ WriteScalar(RTInputs)

SpecRT == InitRT /\ [][NextRT]_vars

\* a write of a scalar that returned Ok is followed by the read of the same
\* type at the same address
WriteThenRead ==
    /\ last.op = "write_scalar"
    /\ last.ok
    /\ last'.op = "read_scalar"
    /\ last'.ty = last.ty
    /\ last'.addr = last.addr

\* C3: for every scalar type T and every value v representable in T, at an
\* in-bounds writable address, write_T(addr, v) followed by read_T(addr)
\* returns v, the negative values of the signed types and the i64 values
\* passed as a BigInt included.
C3_RoundTrip ==
    [][WriteThenRead => (last'.ok /\ last'.val = last.arg)]_vars

---------------------------------------------------------------------------
(* SpecChain: one engine of either architecture resolves one pointer       *)
(* chain in a target that holds pointers, the environment doing anything   *)
(* to each read.                                                           *)

\* 0x7FF600000000, an address far from the target's pages
HighAddr == BigIntOf(FALSE, <<(<<0, 0, 0, 0, 246, 127, 0, 0>>)>>)

\* target memories: in the first the 8 bytes at 0 hold 8 and those at 8
\* hold 4; in the second the upper halves of both are not zero, so what a
\* 4-byte read and an 8-byte read see differ
ChainMems ==
    { MemOf(<<8, 0, 0, 0, 0, 0, 0, 0, 4, 0, 0, 0, 0, 0, 0, 0>>),
      MemOf(<<8, 0, 0, 0, 1, 0, 0, 0, 0, 0, 0, 0, 2, 0, 0, 0>>) }

ChainProtections == {AllPages("RW"), [g \in 0..(NumPages - 1) |-> IF g = 0 THEN "RW" ELSE "FREE"]}

\* the offset lists of up to three offsets, each 0 or 4
ChainOffsets ==
    UNION {[1..n -> {U32(0), U32(4)}] : n \in 0..3}

ChainFaults == {NoFault, Fail(0), Short(1)}

ChainInputs ==
    [ops |-> 1,
     addrs |-> {AddrOf(0), AddrOf(4), AddrOf(8), HighAddr},
     chains |-> ChainOffsets,
     cfaults |-> [1..3 -> ChainFaults]]

InitChain == InitEngine(ChainMems, ChainProtections, {"X86", "X64"})

NextChain == ResolvePointerChain(ChainInputs)

SpecChain == InitChain /\ [][NextChain]_vars

\* the last operation resolved a chain from a valid base
Resolved ==
    /\ last.op = "resolve_pointer_chain"
    /\ ~last.addr.sign_bit
    /\ Len(last.addr.words) = 1

\* the pointer width of the engine of the last operation
Width == IF engines[last.eng].arch = "X86" THEN 4 ELSE 8

\* the number a u32 offset below 2^31 stands for
Nat32(o) == o[1] + 256 * o[2] + 65536 * o[3] + 16777216 * o[4]

\* the 8-byte address after a
Succ(a) ==
    [i \in 1..8 |-> IF \A j \in 1..(i - 1) : a[j] = 255
                    THEN (a[i] + 1) % 256 ELSE a[i]]

\* the 8-byte address k after a
RECURSIVE Plus(_, _)
Plus(a, k) == IF k = 0 THEN a ELSE Plus(Succ(a), k - 1)

\* the pointer of w bytes the memory m holds at address a, zero-extended
Stored(m, a, w) ==
    [j \in 1..8 |-> IF j <= w /\ AddrIndex(a) + j - 1 < MemSize
                    THEN m[AddrIndex(a) + j - 1] ELSE 0]

\* the reference walk: the location the i-th read is made at, from current
RECURSIVE RefLoc(_, _, _, _, _)
RefLoc(m, w, base, offsets, i) ==
    IF i = 1 THEN Plus(base, Nat32(offsets[1]))
    ELSE Plus(Stored(m, RefLoc(m, w, base, offsets, i - 1), w), Nat32(offsets[i]))

\* the reference result of a chain of n >= 2 offsets
RefResult(m, w, base, offsets) ==
    Plus(Stored(m, RefLoc(m, w, base, offsets, Len(offsets) - 1), w),
         Nat32(offsets[Len(offsets)]))

\* the d-th read of the last operation was complete
ReadGood(d) ==
    last.calls[d].ok /\ last.calls[d].moved = last.calls[d].len

\* the pointer the d-th read of the last operation was made at is zero at
\* the engine's width
ReadZero(d) == IsZero(Stored(last.mem0, last.calls[d].at, Width))

\* the last operation failed at depth d with the message msg, after d reads
StoppedAt(d, msg) ==
    /\ ~last.ok
    /\ last.err.msg = msg
    /\ last.err.depth = d
    /\ Len(last.calls) = d

\* C4: resolving a chain of two or more offsets, a pointer that reads as
\* zero at the d-th step fails the resolution with the null-pointer error of
\* depth d and no later read is made; a failed read at the d-th step fails
\* it with the read-failure error of depth d and no later read is made.
C4_ChainStopsAtDepth ==
    (Resolved /\ Len(last.arg) >= 2) =>
        \A d \in 1..Len(last.calls) :
            /\ ~ReadGood(d) => StoppedAt(d, "LevelReadFailed")
            /\ (ReadGood(d) /\ ReadZero(d)) => StoppedAt(d, "NullPointer")

\* a chain of three offsets met a null pointer at its second step
C4_Witness ==
    /\ Resolved
    /\ Len(last.arg) = 3
    /\ ReadGood(1) /\ ~ReadZero(1)
    /\ Len(last.calls) >= 2 /\ ReadGood(2) /\ ReadZero(2)
    /\ StoppedAt(2, "NullPointer")

\* C5: a chain of two or more offsets whose reads all succeed with pointers
\* that are not zero gives the reference result: one read per offset but the
\* last, each of 4 bytes on a 32-bit and 8 bytes on a 64-bit engine, each at
\* the previous pointer plus the offset, and the result is the last pointer
\* plus the last offset.
C5_ChainReference ==
    (/\ Resolved
     /\ Len(last.arg) >= 2
     /\ \A d \in 1..Len(last.calls) : ReadGood(d) /\ ~ReadZero(d))
    => /\ last.ok
       /\ Len(last.calls) = Len(last.arg) - 1
       /\ \A d \in 1..Len(last.calls) :
            /\ last.calls[d].fn = "Read"
            /\ last.calls[d].len = Width
            /\ last.calls[d].at = RefLoc(last.mem0, Width, last.addr.words[1], last.arg, d)
       /\ last.val = BigIntFromU64(RefResult(last.mem0, Width, last.addr.words[1], last.arg))

\* a 32-bit engine resolved a chain of three offsets through two pointers
\* whose upper halves are not zero
C5_Witness ==
    /\ Resolved
    /\ last.ok
    /\ Width = 4
    /\ Len(last.arg) = 3
    /\ Len(last.calls) = 2
    /\ ~IsZero(Stored(last.mem0, last.calls[1].at, 8))
    /\ Stored(last.mem0, last.calls[1].at, 8) # Stored(last.mem0, last.calls[1].at, 4)

\* C6: a chain of fewer than two offsets makes no OS call: the empty chain
\* gives the base and the chain of the one offset k gives base + k.
C6_ShortChainNoRead ==
    (Resolved /\ Len(last.arg) < 2) =>
        /\ last.ok
        /\ last.calls = <<>>
        /\ last.val = BigIntFromU64(IF last.arg = <<>> THEN last.addr.words[1]
                                    ELSE Plus(last.addr.words[1], Nat32(last.arg[1])))

\* the chain of the one offset 4 was resolved from the base 0x7FF600000000
C6_Witness ==
    /\ Resolved
    /\ last.addr = HighAddr
    /\ last.arg = <<U32(4)>>
    /\ last.val = BigIntOf(FALSE, <<(<<4, 0, 0, 0, 246, 127, 0, 0>>)>>)

---------------------------------------------------------------------------
(* SpecAddr: one engine performs one operation, of any kind, at a valid or *)
(* an invalid address.                                                     *)

AddrInputs ==
    [ops |-> 1,
     types |-> ScalarTypes,
     values |-> [T \in ScalarTypes |->
                   IF T \in NumberTypes
                   THEN {CastInt(Small(1, SizeOf(T)), FALSE, JsBytes)}
                   ELSE {BigIntFromU64(Small(1, 8))}],
     addrs |-> InvalidAddrs \cup {StartAddr},
     faults |-> {NoFault},
     wfaults |-> {NoWriteFaults},
     lens |-> {2},
     buffers |-> {<<7, 8>>},
     bounds |-> {None, Some(2)},
     texts |-> {<<"9", "0">>, <<"9">>, <<"9", "0", " ", "9">>},
     chains |-> {<<>>, <<U32(0), U32(4)>>},
     cfaults |-> {<<NoFault, NoFault>>}]

InitAddr == InitEngine(ChainMems, {AllPages("RW")}, {"X86", "X64"})

NextAddr ==
    \/ ReadScalar(AddrInputs)
    \/ WriteScalar(AddrInputs)
    \/ ReadBuffer(AddrInputs)
    \/ WriteBuffer(AddrInputs)
    \/ ReadString(AddrInputs)
    \/ ReadInstruction(AddrInputs)
    \/ WriteInstruction(AddrInputs)
    \/ NopInstruction(AddrInputs)
    \/ ResolvePointerChain(AddrInputs)

SpecAddr == InitAddr /\ [][NextAddr]_vars

\* the operations that take an address
AddrOps ==
    {"read_scalar", "write_scalar", "read_buffer", "write_buffer", "read_string",
     "read_instruction", "write_instruction", "nop_instruction",
     "resolve_pointer_chain"}

\* the last operation was given an address that is negative or does not
\* fit 64 bits
InvalidAddress ==
    /\ last.op \in AddrOps
    /\ (last.addr.sign_bit \/ Len(last.addr.words) # 1)

\* the invalid-address error for the address of the last operation
AddressError ==
    /\ last.err.status = "InvalidArg"
    /\ last.err.msg = IF last.addr.sign_bit THEN "AddrNegative"
                      ELSE "AddrPrecisionLoss"

\* the operation made no OS call and left the target as it was
NoOsCall ==
    /\ last.calls = <<>>
    /\ mem = last.mem0
    /\ prot = last.prot0

\* the hexadecimal digits
HexDigits ==
    {"0", "1", "2", "3", "4", "5", "6", "7", "8", "9",
     "a", "b", "c", "d", "e", "f", "A", "B", "C", "D", "E", "F"}

\* the text has an odd number of hexadecimal digits
OddDigits(text) ==
    Cardinality({i \in 1..Len(text) : text[i] \in HexDigits}) % 2 = 1

\* C7 as stated: every operation that takes an address, called with a
\* negative address or one that does not fit 64 bits, returns the
\* invalid-address error and makes no OS call.
C7_InvalidAddressRejected ==
    InvalidAddress => (~last.ok /\ AddressError /\ NoOsCall)

\* C7 amended: every operation that takes an address, called with a
\* negative address or one that does not fit 64 bits, returns an error and
\* makes no OS call; the error is the invalid-address error, except that
\* write_instruction given a text with an odd number of hexadecimal digits
\* returns the invalid-hex error, its text being checked before its address.
C7_InvalidAddressNoOsCall ==
    InvalidAddress =>
        /\ ~last.ok
        /\ NoOsCall
        /\ IF last.op = "write_instruction" /\ OddDigits(last.arg)
           THEN last.err.status = "InvalidArg" /\ last.err.msg = "InvalidHexString"
           ELSE AddressError

\* write_instruction was given a negative address and an odd number of digits
C7_Witness ==
    /\ InvalidAddress
    /\ last.op = "write_instruction"
    /\ last.addr.sign_bit
    /\ OddDigits(last.arg)
    /\ last.err.msg = "InvalidHexString"

---------------------------------------------------------------------------
(* The lifecycle of the handles, under Spec.                               *)

\* the handle h was acquired for an engine (owner 0 is the architecture
\* query of create)
EngineHandle(h) == handles[h].owner # 0

\* the engine that owns the handle h was constructed and not yet discarded
OwnerLive(h) ==
    /\ handles[h].owner \in 1..Len(engines)
    /\ engines[handles[h].owner].st = "live"
    /\ engines[handles[h].owner].handle = h

\* the engine that owns the handle h was constructed and then discarded
OwnerDropped(h) ==
    /\ handles[h].owner \in 1..Len(engines)
    /\ engines[handles[h].owner].st = "dropped"
    /\ engines[handles[h].owner].handle = h

\* C8: over any sequence of constructions, operations and discards, a
\* handle acquired for an engine is open and never released while its
\* engine lives and released exactly once when the engine was discarded;
\* the handle of the architecture query is released once, within create; no
\* handle is released twice, and every OS memory call of an operation was
\* made on the open handle of the engine it ran on.
C8_HandleLifecycle ==
    /\ \A h \in 1..Len(handles) :
         /\ handles[h].closes <= 1
         /\ handles[h].open <=> handles[h].closes = 0
         /\ EngineHandle(h) =>
              \/ OwnerLive(h) /\ handles[h].closes = 0
              \/ OwnerDropped(h) /\ handles[h].closes = 1
         /\ ~EngineHandle(h) => handles[h].closes = 1
    /\ \A e \in 1..Len(engines) :
         /\ engines[e].handle \in 1..Len(handles)
         /\ handles[engines[e].handle].owner = e
    /\ last.op \in AddrOps =>
         \A i \in 1..Len(last.calls) :
             /\ last.calls[i].h = engines[last.eng].handle
             /\ handles[last.calls[i].h].open

\* one engine was discarded and its handle released, and another engine
\* then made an OS call
C8_Witness ==
    /\ \E h \in 1..Len(handles) : OwnerDropped(h) /\ handles[h].closes = 1
    /\ \E h \in 1..Len(handles) : ~EngineHandle(h)
    /\ last.op \in AddrOps
    /\ last.calls # <<>>

---------------------------------------------------------------------------
(* SpecHex: one engine writes one hexadecimal text to writable memory, the *)
(* environment doing nothing to the OS calls.                              *)

\* the characters the texts are made of: digits, letters that are digits,
\* whitespace and a letter that is no digit
HexAlphabet == {"9", "0", "a", "F", " ", "G"}

\* every text of up to three characters, and the two texts of three NOPs
HexTexts ==
    UNION {[1..n -> HexAlphabet] : n \in 0..3}
    \cup {<<"9", "0", " ", "9", "0", " ", "9", "0">>,
          <<"9", "0", "9", "0", "9", "0">>}

HexInputs ==
    [ops |-> 1,
     addrs |-> {StartAddr},
     wfaults |-> {NoWriteFaults},
     texts |-> HexTexts]

InitHex == InitEngine({RWMem}, {AllPages("RW")}, {"X64"})

NextHex == WriteInstruction(HexInputs)

SpecHex == InitHex /\ [][NextHex]_vars

Whitespace == {" ", "\t", "\n"}

\* the hexadecimal digits of the text, in order
DigitsOf(text) == SelectSeq(text, LAMBDA c : c \in HexDigits)

\* the number a hexadecimal digit stands for
HexValue(c) ==
    CASE c = "0" -> 0 [] c = "1" -> 1 [] c = "2" -> 2 [] c = "3" -> 3
      [] c = "4" -> 4 [] c = "5" -> 5 [] c = "6" -> 6 [] c = "7" -> 7
      [] c = "8" -> 8 [] c = "9" -> 9
      [] c \in {"a", "A"} -> 10 [] c \in {"b", "B"} -> 11
      [] c \in {"c", "C"} -> 12 [] c \in {"d", "D"} -> 13
      [] c \in {"e", "E"} -> 14 [] c \in {"f", "F"} -> 15

\* the bytes an even number of digits stand for
BytesOf(ds) ==
    [i \in 1..(Len(ds) \div 2) |-> 16 * HexValue(ds[2 * i - 1]) + HexValue(ds[2 * i])]

\* the memory m with the bytes bs stored from the address index x on
Patched(m, x, bs) ==
    [y \in DOMAIN m |-> IF y >= x /\ y < x + Len(bs) THEN bs[y - x + 1] ELSE m[y]]

\* the last operation was write_instruction at a valid address
WroteInstruction ==
    /\ last.op = "write_instruction"
    /\ ~InvalidAddress

\* the last operation failed with the invalid-hex error and wrote nothing
InvalidHexPatch ==
    /\ ~last.ok
    /\ last.err.status = "InvalidArg"
    /\ last.err.msg \in {"InvalidHexString", "HexParseFailed"}
    /\ NoOsCall

\* C9 as stated: write_instruction fails with the invalid-hex error and
\* writes nothing whenever its text has an odd number of digits or holds a
\* character that is neither a hexadecimal digit nor whitespace.
C9_InvalidHexRejected ==
    (/\ WroteInstruction
     /\ \/ OddDigits(last.arg)
        \/ \E i \in 1..Len(last.arg) : last.arg[i] \notin HexDigits \cup Whitespace)
    => InvalidHexPatch

\* C9 amended: write_instruction fails with the invalid-hex error and
\* writes nothing exactly when its text has an odd number of hexadecimal
\* digits; every other character, whitespace or not, is dropped, and a text
\* with an even number of digits writes the bytes its digits stand for, so
\* texts that differ only in whitespace write the same bytes.
C9_OddDigitCountRejected ==
    WroteInstruction =>
        IF OddDigits(last.arg)
        THEN InvalidHexPatch /\ last.err.msg = "InvalidHexString"
        ELSE /\ last.ok
             /\ Len(last.calls) = 1
             /\ last.calls[1].fn = "Write"
             /\ last.calls[1].len = Len(DigitsOf(last.arg)) \div 2
             /\ mem = Patched(last.mem0, AddrIndex(last.addr.words[1]),
                              BytesOf(DigitsOf(last.arg)))

\* a text with a letter that is no digit between two digits was written as
\* the one byte the two digits stand for
C9_Witness ==
    /\ WroteInstruction
    /\ last.arg = <<"9", "G", "0">>
    /\ last.ok
    /\ mem[0] = 144

---------------------------------------------------------------------------
(* SpecString: one engine reads one string from a target that holds text,  *)
(* the environment doing anything to the read.                             *)

\* "AB", 0, a byte that is no text, "é", 0, half of "é", "A", "€", 0, and an
\* encoded surrogate
StringMem ==
    MemOf(<<65, 66, 0, 255, 195, 169, 0, 195, 65, 226, 130, 172, 0, 237, 160, 128>>)

StringInputs ==
    [ops |-> 1,
     addrs |-> {AddrOf(x) : x \in 0..(MemSize - 1)},
     bounds |-> {None} \cup {Some(n) : n \in 0..4},
     faults |-> {NoFault, Fail(0), Short(1)}]

InitString == InitEngine({StringMem}, ChainProtections, {"X64"})

NextString == ReadString(StringInputs)

SpecString == InitString /\ [][NextString]_vars

\* the last operation was read_string at a valid address
ReadAString ==
    /\ last.op = "read_string"
    /\ ~InvalidAddress

\* the bound of the last read_string: what was passed, or 256
Bound == IF last.arg.some THEN last.arg.v ELSE 256

\* the n bytes the memory m holds from the address index x on
Held(m, x, n) == [j \in 1..n |-> m[x + j - 1]]

\* the bytes of buf before its first zero byte, or all of buf
BeforeZero(buf) ==
    SubSeq(buf, 1,
           CHOOSE k \in 0..Len(buf) :
               /\ \A j \in 1..k : buf[j] # 0
               /\ k = Len(buf) \/ buf[k + 1] = 0)

\* b is a continuation byte
IsCont(b) == b >= 128 /\ b <= 191

\* e is the UTF-8 encoding of one Unicode scalar value: the shortest
\* encoding of a code point up to U+10FFFF that is no surrogate
IsEncoding(e) ==
    CASE Len(e) = 1 -> e[1] < 128
      [] Len(e) = 2 ->
           /\ e[1] >= 192 /\ e[1] <= 223 /\ IsCont(e[2])
           /\ (e[1] - 192) * 64 + (e[2] - 128) >= 128
      [] Len(e) = 3 ->
           /\ e[1] >= 224 /\ e[1] <= 239 /\ IsCont(e[2]) /\ IsCont(e[3])
           /\ LET cp == (e[1] - 224) * 4096 + (e[2] - 128) * 64 + (e[3] - 128)
              IN  cp >= 2048 /\ (cp < 55296 \/ cp > 57343)
      [] Len(e) = 4 ->
           /\ e[1] >= 240 /\ e[1] <= 247
           /\ IsCont(e[2]) /\ IsCont(e[3]) /\ IsCont(e[4])
           /\ LET cp == (e[1] - 240) * 262144 + (e[2] - 128) * 4096
                        + (e[3] - 128) * 64 + (e[4] - 128)
              IN  cp >= 65536 /\ cp <= 1114111

\* bs is text: a sequence of encodings of scalar values
RECURSIVE IsText(_)
IsText(bs) ==
    \/ bs = <<>>
    \/ \E n \in 1..Min(4, Len(bs)) :
          /\ IsEncoding(SubSeq(bs, 1, n))
          /\ IsText(SubSeq(bs, n + 1, Len(bs)))

\* C10: read_string with the bound L makes one read, of exactly L bytes at
\* the address; when the read is complete the result is the bytes of the
\* buffer before its first zero byte, or all L bytes when it holds none,
\* and the operation fails with the decode error when those bytes are not
\* text; when the read is not complete the operation fails.
C10_ReadStringBounded ==
    ReadAString =>
        /\ Len(last.calls) = 1
        /\ last.calls[1].fn = "Read"
        /\ last.calls[1].at = last.addr.words[1]
        /\ last.calls[1].len = Bound
        /\ mem = last.mem0
        /\ IF ReadGood(1)
           THEN IF IsText(BeforeZero(Held(last.mem0, AddrIndex(last.addr.words[1]), Bound)))
                THEN /\ last.ok
                     /\ last.val = BeforeZero(Held(last.mem0,
                                                   AddrIndex(last.addr.words[1]), Bound))
                ELSE ~last.ok /\ last.err.msg = "Utf8DecodeError"
           ELSE ~last.ok /\ last.err.msg = "ReadBufferFailed"

\* a string was read whose buffer of four bytes holds text, then a zero
\* byte, then a byte that is no text
C10_Witness ==
    /\ ReadAString
    /\ last.addr = AddrOf(0)
    /\ Bound = 4
    /\ last.ok
    /\ last.val = <<65, 66>>

---------------------------------------------------------------------------
(* SpecErr: one engine makes two reads, the environment doing anything to  *)
(* each.                                                                   *)

ErrInputs ==
    [ops |-> 2,
     types |-> {"u16", "u32", "i64"},
     addrs |-> {StartAddr, StraddleAddr},
     faults |-> TransferFaults,
     lens |-> {2}]

InitErr == InitEngine({RWMem}, ChainProtections, {"X64"})

NextErr ==
    \/ ReadScalar(ErrInputs)
    \/ ReadBuffer(ErrInputs)

SpecErr == InitErr /\ [][NextErr]_vars

\* the operation recorded as r is a read that made its one OS call
ReadOp(r) ==
    /\ r.op \in {"read_scalar", "read_buffer"}
    /\ Len(r.calls) = 1

\* the OS call of the read r reported failure
OsFailure(r) == ReadOp(r) /\ ~r.calls[1].ok

\* the OS call of the read r reported success and moved fewer bytes than
\* were asked for
ShortTransfer(r) ==
    /\ ReadOp(r)
    /\ r.calls[1].ok
    /\ r.calls[1].moved < r.calls[1].len

\* C11: the error a read returns for a short transfer and the error the
\* same kind of read returns when its OS call reported failure are never
\* the same error.
C11_ShortTransferDistinct ==
    [][(/\ OsFailure(last)
        /\ ShortTransfer(last')
        /\ last'.op = last.op)
       => (~last'.ok /\ last'.err # last.err)]_vars

---------------------------------------------------------------------------
(* The three paths of a write, under SpecRW.                               *)

\* the last operation was a write that reached its first OS call
Wrote ==
    /\ last.op \in WriteOps
    /\ last.calls # <<>>
    /\ last.calls[1].fn = "Write"

\* C12: in every write operation, when the direct write reports success
\* the operation returns success at once: it made no other OS call, neither
\* a protection change nor a second write, and the protections of the
\* target's pages are as they were.
C12_DirectWriteReturns ==
    (Wrote /\ last.calls[1].ok) =>
        /\ last.ok
        /\ Len(last.calls) = 1
        /\ prot = last.prot0

\* a direct write of two bytes over the boundary of two writable pages
\* succeeded
C12_Witness ==
    /\ Wrote
    /\ last.calls[1].ok
    /\ last.calls[1].len = 2
    /\ last.calls[1].moved = 2
    /\ last.addr = StraddleAddr
    /\ last.prot0[0] = "RW" /\ last.prot0[1] = "RW"
    /\ last.ok

\* the direct write of the last operation failed and so did the change of
\* the protection that followed it
ProtectFailed ==
    /\ Wrote
    /\ ~last.calls[1].ok
    /\ Len(last.calls) >= 2
    /\ last.calls[2].fn = "Protect"
    /\ ~last.calls[2].ok

\* the operation failed with the error of a failed protection change after
\* its two OS calls
StoppedAfterProtect ==
    /\ ~last.ok
    /\ last.err.msg \in {"VirtualProtectExFailed", "ProtectFailed"}
    /\ Len(last.calls) = 2
    /\ prot = last.prot0

\* C13 as stated: in every write operation, when the direct write fails
\* and the protection change fails too, the operation reports failure and
\* stops: no retry and no restoring call is made, and the target's bytes
\* and protections are as they were before the operation.
C13_ProtectFailureStops ==
    ProtectFailed => (StoppedAfterProtect /\ mem = last.mem0)

\* the bytes of the target outside the first n bytes of the range of the
\* last operation are as they were before it
UnchangedBeyond(n) ==
    \A x \in DOMAIN mem :
        (x < AddrIndex(last.calls[1].at) \/ x >= AddrIndex(last.calls[1].at) + n)
            => mem[x] = last.mem0[x]

\* C13 amended: in every write operation, when the direct write fails and
\* the protection change fails too, the operation reports the failure of
\* the protection change and stops: no retry and no restoring call is
\* made and the protections are as they were; the target's bytes are as
\* they were except for the leading bytes of the range that the failed
\* direct write reported as transferred.
C13_ProtectFailureNoRetry ==
    ProtectFailed =>
        /\ StoppedAfterProtect
        /\ UnchangedBeyond(last.calls[1].moved)

\* the direct write failed after it had stored the first byte of the
\* range, and the protection change failed
C13_Witness ==
    /\ ProtectFailed
    /\ StoppedAfterProtect
    /\ last.calls[1].moved = 1
    /\ mem # last.mem0

\* the direct write of the last operation failed and the change of the
\* protection that followed it succeeded
OnForcedPath ==
    /\ Wrote
    /\ ~last.calls[1].ok
    /\ Len(last.calls) >= 2
    /\ last.calls[2].fn = "Protect"
    /\ last.calls[2].ok

\* C14: on the forced-write path the operation makes exactly one retry
\* write, followed by the restoring call, and returns success if and only
\* if the retried write reported success, whether the restoration
\* succeeded or not; when the retry failed the error is the forced-write
\* failure, which is not the error of a failed protection change.
C14_RetryDecides ==
    OnForcedPath =>
        /\ Len(last.calls) = 4
        /\ last.calls[3].fn = "Write"
        /\ last.calls[3].at = last.calls[1].at
        /\ last.calls[3].len = last.calls[1].len
        /\ last.calls[4].fn = "Protect"
        /\ last.ok <=> last.calls[3].ok
        /\ ~last.calls[3].ok =>
             /\ last.err.msg \in {"ForcedWriteFailed", "WriteBufferFailed"}
             /\ last.err.msg \notin {"VirtualProtectExFailed", "ProtectFailed"}

\* a typed write whose retry succeeded returned success although the
\* restoration of the protection failed
C14_Witness ==
    /\ OnForcedPath
    /\ last.op = "write_scalar"
    /\ last.calls[3].ok
    /\ ~last.calls[4].ok
    /\ last.ok

---------------------------------------------------------------------------
(* SpecConc: two threads of one engine are each inside one call of         *)
(* write_memory_raw on the same target.  Every OS call of write_memory_raw *)
(* is a step of its own and the steps of the two threads interleave in any *)
(* order; the engine takes no lock.  The pages start with one protection,  *)
(* and no OS call fails but for the protections of the pages.              *)

WriterIds == {1, 2}

\* a thread that called write_memory_raw(handle, at, value) when the pages
\* had the protections p: it is about to make the direct write and has its
\* own last-error code
Writer(at, value, p) ==
    [pc |-> "direct", at |-> at, value |-> value, old |-> "NONE",
     le |-> ERROR_SUCCESS, retry_ok |-> FALSE, ok |-> FALSE,
     err |-> NoRawErr, prot0 |-> p]

\* the thread returned r
Returned(w, ok, err, le) ==
    [w EXCEPT !.pc = "done", !.ok = ok, !.err = err, !.le = le]

\* write_memory_raw, step 1: the direct write; done if it succeeded
DirectWrite(t) ==
    /\ writers[t].pc = "direct"
    /\ LET w == writers[t]
           w1 == OsWrite(mem, prot, Self(1).open, w.at, w.value, NoFault)
       IN  /\ mem' = w1.mem
           /\ writers' = [writers EXCEPT ![t] =
                            IF w1.ok
                            THEN Returned(w, TRUE, NoRawErr, ErrAfter(w.le, w1))
                            ELSE [w EXCEPT !.pc = "protect",
                                           !.le = ErrAfter(w.le, w1)]]
    /\ UNCHANGED <<prot, lastError, engines, handles, last, nops>>

\* write_memory_raw, step 2: the range is made PAGE_EXECUTE_READWRITE and
\* the protection it had is captured; an error is returned if that failed
ChangeProtection(t) ==
    /\ writers[t].pc = "protect"
    /\ LET w == writers[t]
           pr == OsProtect(prot, Self(1).open, w.at, Len(w.value),
                           PAGE_EXECUTE_READWRITE, NoFault)
       IN  /\ prot' = pr.prot
           /\ writers' = [writers EXCEPT ![t] =
                            IF ~pr.ok
                            THEN Returned(w, FALSE,
                                          RawErr("VirtualProtectExFailed",
                                                 ErrAfter(w.le, pr)),
                                          ErrAfter(w.le, pr))
                            ELSE [w EXCEPT !.pc = "retry", !.old = pr.old]]
    /\ UNCHANGED <<mem, lastError, engines, handles, last, nops>>

\* write_memory_raw, step 3: the write is retried
RetryWrite(t) ==
    /\ writers[t].pc = "retry"
    /\ LET w == writers[t]
           w2 == OsWrite(mem, prot, Self(1).open, w.at, w.value, NoFault)
       IN  /\ mem' = w2.mem
           /\ writers' = [writers EXCEPT ![t] =
                            [w EXCEPT !.pc = "restore", !.retry_ok = w2.ok,
                                      !.le = ErrAfter(w.le, w2)]]
    /\ UNCHANGED <<prot, lastError, engines, handles, last, nops>>

\* write_memory_raw, step 4: the captured protection is restored, and the
\* result is that of the retried write
RestoreProtection(t) ==
    /\ writers[t].pc = "restore"
    /\ LET w == writers[t]
           rs == OsProtect(prot, Self(1).open, w.at, Len(w.value), w.old,
                           NoFault)
       IN  /\ prot' = rs.prot
           /\ writers' = [writers EXCEPT ![t] =
                            IF w.retry_ok
                            THEN Returned(w, TRUE, NoRawErr, ErrAfter(w.le, rs))
                            ELSE Returned(w, FALSE,
                                          RawErr("ForcedWriteFailed",
                                                 ErrAfter(w.le, rs)),
                                          ErrAfter(w.le, rs))]
    /\ UNCHANGED <<mem, lastError, engines, handles, last, nops>>

\* the addresses the threads write a u16 to: the first bytes of the first
\* page, and its last byte with the first of the second page
ConcAddrs == {bigint_to_addr(a).addr : a \in {StartAddr, StraddleAddr}}

InitConc ==
    /\ mem = RWMem
    /\ prot \in {AllPages(pr) : pr \in {"RW", "R", "RX", "FREE"}}
    /\ lastError = ERROR_SUCCESS
    /\ engines = <<[st |-> "live", handle |-> 1, pid |-> 100, arch |-> "X64"]>>
    /\ handles = <<[owner |-> 1, open |-> TRUE, closes |-> 0]>>
    /\ last = NoOp
    /\ nops = 0
    /\ \E a1 \in ConcAddrs, a2 \in ConcAddrs :
         writers = [t \in WriterIds |->
                      Writer(IF t = 1 THEN a1 ELSE a2, Small(t, 2), prot)]

NextConc ==
    \E t \in WriterIds :
        \/ DirectWrite(t)
        \/ ChangeProtection(t)
        \/ RetryWrite(t)
        \/ RestoreProtection(t)

SpecConc == InitConc /\ [][NextConc]_vars

\* both write operations have returned
BothReturned == \A t \in WriterIds : writers[t].pc = "done"

\* C15: when two write operations to overlapping pages run concurrently,
\* each stepping through direct write, protection change, retry write and
\* restore as separate steps, an unexpected page protection is only
\* transient: once both operations have returned, the protection of the
\* pages equals the protection they had before either started.
C15_ProtectionSettles ==
    BothReturned => prot = writers[1].prot0

=============================================================================
